---- MODULE Spec2Model ----
(***************************************************************************)
(* The drawing canvas of src/pages/home.tsx (component Home): the scene    *)
(* state (shapes, particles), the control settings, the pointer handlers   *)
(* with their long-press timeout and progress interval, the control-panel  *)
(* actions and the particle-aging interval.                                *)
(*                                                                         *)
(* Numbers.  Math.random() is a draw r20 from RandomDraws, standing for    *)
(* the value r20/20 of [0, 1).  Opacities are in tenths (0.9 is 9).        *)
(* longPressProgress is kept as the numerator of elapsed/1500, in ms.      *)
(* The canvas fills the viewport, so rect.left = rect.top = 0.             *)
(*                                                                         *)
(* Scheduling.  One thread: every handler and every timer callback runs to *)
(* completion, and React re-renders between events, so a handler sees the  *)
(* state the previous one left.  A timer callback sees what it closed over *)
(* when handlePointerDown made it (touchedShape, x, y, startTime) and      *)
(* updates state through the functional setters.  A timeout may run once   *)
(* its delay has elapsed on the clock; an interval callback may run at any *)
(* later time while it is running.                                         *)
(*                                                                         *)
(* Pointers.  The canvas gets a pointerdown and a pointerup per pointer;   *)
(* the handlers do not look at the pointer id.  held, released and fires   *)
(* record, beside the program's state, which pointer is down, which        *)
(* presses have ended and how often each timeout callback ran.             *)
(*                                                                         *)
(* Sound.  new AudioContext() may throw; initAudioContext catches it and   *)
(* logs a warning (warned), and the ref stays null.  A tone is a request   *)
(* in out.notes, audible when playNote finds an audio context.             *)
(*                                                                         *)
(* Specifications.  Spec is the whole component in a small scope.  The     *)
(* others take the handlers and callbacks that write the state in question *)
(* and run them in a wider scope: SpecScene (create, erase, clear, the     *)
(* controls), SpecIds (ids over clock readings), SpecGesture (long press,  *)
(* drag, two pointers), SpecLongPress (the timeout alone), SpecControls    *)
(* (long runs of the control panel), SpecParticles (particle aging, and    *)
(* SpecParticlesFair with the interval kept firing), SpecKinds (the shape  *)
(* kinds), SpecAudio (audio context creation failing), SpecHit (hit        *)
(* testing of overlapping shapes), SpecEraseDrag (erasing and clearing     *)
(* during a long press or a drag).                                         *)
(***************************************************************************)
EXTENDS Integers, Sequences, FiniteSets, TLC

\* ------------------------------------------------------------------ bounds
MaxShapes == 2
MaxPresses == 2
MaxTicks == 2
MaxCtl == 1
MaxControlRuns == 11

\* Milliseconds the clock advances by in one ClockTick.
ClockSteps == {750}

\* Math.random() draws, as twentieths.
RandomDraws == {0, 19}
Pointers == {1, 2}
\* Outcomes of the audio context creations of one pointer-down: both succeed.
AudioWorks == <<TRUE, TRUE>>

\* Pointer positions (clientX, clientY) the environment delivers.  <<135, 100>> is
\* on the edge of a shape of size 70 at <<100, 100>>; <<120, 100>> is inside it.
Points == {<<100, 100>>, <<135, 100>>, <<300, 140>>}
GesturePoints == {<<100, 100>>, <<120, 100>>, <<300, 140>>}
\* Three points in a row, 35 apart: shapes of size 70 at the outer two both have the
\* middle one on their edge.
HitPoints == {<<100, 100>>, <<135, 100>>, <<170, 100>>}

\* What a run may use: shapes and particles in the lists, long presses started,
\* control-panel calls.  A run keeps its scope.
SceneScope == [shapes |-> MaxShapes, presses |-> 0, ctl |-> MaxCtl, clock |-> 0]
IdScope == [shapes |-> MaxShapes, presses |-> 0, ctl |-> MaxCtl, clock |-> MaxTicks * 750]
ParticleScope == [shapes |-> MaxShapes, presses |-> 0, ctl |-> MaxCtl, clock |-> 0]
GestureScope == [shapes |-> MaxShapes, presses |-> MaxPresses, ctl |-> 0, clock |-> MaxTicks * 750]
ControlScope == [shapes |-> 1, presses |-> 1, ctl |-> MaxControlRuns, clock |-> 0]
EraseDragScope == [shapes |-> MaxShapes, presses |-> 1, ctl |-> MaxCtl, clock |-> MaxTicks * 750]
KindScope == [shapes |-> 1, presses |-> 0, ctl |-> MaxControlRuns, clock |-> 0]
AudioScope == [shapes |-> MaxShapes, presses |-> 1, ctl |-> MaxCtl + 1, clock |-> 0]
HitScope == [shapes |-> MaxShapes, presses |-> 1, ctl |-> MaxCtl, clock |-> 0]
SmallScope == [shapes |-> 1, presses |-> 1, ctl |-> 1, clock |-> MaxTicks * 750]

\* --------------------------------------------------------- program constants
COLOR_PALETTES ==
  [pastels |-> <<"#FFB3E6", "#B3E5FF", "#B3FFB3", "#FFFFB3", "#E6B3FF", "#FFE6B3", "#B3FFFF", "#FFB3B3">>,
   rainbow |-> <<"#FF1493", "#00CED1", "#32CD32", "#FFD700", "#FF69B4", "#00BFFF", "#7FFF00", "#FF6347">>,
   warm    |-> <<"#FF4500", "#FF8C00", "#FFD700", "#FF1493", "#DC143C", "#FF69B4", "#FF6B6B", "#FF7F50">>]

ShapeKinds ==
  <<"circle", "star", "triangle", "heart", "square", "hexagon", "diamond", "flower", "butterfly", "rainbow">>

PaletteNames == <<"pastels", "rainbow", "warm">>

DefaultSize == 80
SizeStep == 20
MinSize == 20
MaxSize == 200
WaveLife == 60
LongPressDelay == 1500
ProgressInterval == 16
CreatedOpacity == 9
DraggedOpacity == 7
RestoredOpacity == 10

\* null, for a Shape | null
NULL == [id |-> <<>>]

VARIABLES
  shapes,                  \* useState<Shape[]>
  particles,               \* useState<Particle[]>
  currentShape,
  currentPalette,
  currentSize,
  eraserMode,
  draggedShape,            \* Shape | null
  dragOffset,
  longPressTimer,          \* handle of the last timeout started, 0 for null
  showLongPressIndicator,
  longPressProgress,
  audioContextRef,         \* "ctx" or "null"
  warned,                  \* initAudioContext has logged a failed creation
  timeouts,                \* pending setTimeout callbacks, with what they closed over
  intervals,               \* running progress setInterval callbacks
  presses,                 \* long presses started so far (numbers the timer handles)
  now,                     \* Date.now()
  held,                    \* per pointer: -1 up, 0 down, else the timeout its press started
  released,                \* timeouts whose press has seen its pointer-up
  fires,                   \* per timeout handle, how often its callback ran
  ctl,                     \* control-panel calls so far
  scope,                   \* the bounds of this run
  out                      \* what the last handler did: op, notes requested, toasts

sceneVars == <<shapes, particles>>
controlVars == <<currentShape, currentPalette, currentSize, eraserMode>>
dragVars == <<draggedShape, dragOffset>>
pressVars == <<longPressTimer, showLongPressIndicator, longPressProgress>>
audioVars == <<audioContextRef, warned>>
timerVars == <<timeouts, intervals, presses>>
ghostVars == <<held, released, fires, scope>>
vars == <<shapes, particles, currentShape, currentPalette, currentSize, eraserMode,
          draggedShape, dragOffset, longPressTimer, showLongPressIndicator,
          longPressProgress, audioContextRef, warned, timeouts, intervals, presses, now,
          held, released, fires, ctl, scope, out>>

\* ------------------------------------------------------------------ helpers
Min(a, b) == IF a <= b THEN a ELSE b
Max(a, b) == IF a >= b THEN a ELSE b

IndexOf(seq, v) == CHOOSE i \in DOMAIN seq : seq[i] = v

\* prev.map(shape => shape.id === id ? { ...shape, opacity } : shape)
WithOpacity(prev, id, opacity) ==
  [i \in DOMAIN prev |-> IF prev[i].id = id THEN [prev[i] EXCEPT !.opacity = opacity] ELSE prev[i]]

\* prev.map(shape => shape.id === id ? { ...shape, x, y } : shape)
MovedTo(prev, id, x, y) ==
  [i \in DOMAIN prev |-> IF prev[i].id = id THEN [prev[i] EXCEPT !.x = x, !.y = y] ELSE prev[i]]

\* playNote(noteType): a request; it sounds only with an audio context.
playNote(noteType, ctx) == [note |-> noteType, audible |-> ctx # "null"]

Out(op, notes, toasts) == [op |-> op, notes |-> notes, toasts |-> toasts]

\* initAudioContext: creates the context when there is none; creation may throw,
\* which is caught and leaves none (ok says whether creation succeeds).
initAudioContext(ref, ok) ==
  IF ref = "null" THEN (IF ok THEN "ctx" ELSE "null") ELSE ref

\* getRandomColor: colors[Math.floor(Math.random() * colors.length)]
getRandomColor(r20) ==
  LET colors == COLOR_PALETTES[currentPalette]
  IN  colors[((r20 * Len(colors)) \div 20) + 1]

\* createSpreadingWave: the one particle it pushes
createSpreadingWave(x, y, color) ==
  [id |-> <<"wave", now>>, x |-> x, y |-> y, vx |-> 0, vy |-> 0,
   life |-> WaveLife, maxLife |-> WaveLife, color |-> color, size |-> currentSize]

\* findShapeAt: last shape whose centre is within size/2 of (x, y):
\* sqrt(dx^2 + dy^2) <= size/2, squared (sizes are positive).
Hit(shape, x, y) ==
  4 * ((x - shape.x) * (x - shape.x) + (y - shape.y) * (y - shape.y)) <= shape.size * shape.size

RECURSIVE FindFrom(_, _, _)
FindFrom(i, x, y) ==
  IF i < 1 THEN NULL
  ELSE IF Hit(shapes[i], x, y) THEN shapes[i]
  ELSE FindFrom(i - 1, x, y)

\* findShapeAt scanning from the first shape
findShapeAtBottom(x, y) ==
  IF \E i \in DOMAIN shapes : Hit(shapes[i], x, y)
  THEN shapes[CHOOSE i \in DOMAIN shapes :
                Hit(shapes[i], x, y) /\ \A j \in 1..(i - 1) : ~Hit(shapes[j], x, y)]
  ELSE NULL

findShapeAt(x, y) == FindFrom(Len(shapes), x, y)

\* createShape without the "- 10" of its size
NewShapeOffCentre(x, y, rc, ri, rs) ==
  [id |-> <<now, ri>>, x |-> x, y |-> y, type |-> currentShape,
   color |-> getRandomColor(rc), size |-> currentSize + rs,
   palette |-> currentPalette, opacity |-> CreatedOpacity]

\* the Shape createShape builds
NewShape(x, y, rc, ri, rs) ==
  [id |-> <<now, ri>>, x |-> x, y |-> y, type |-> currentShape,
   color |-> getRandomColor(rc), size |-> currentSize + rs - 10,
   palette |-> currentPalette, opacity |-> CreatedOpacity]

\* ------------------------------------------------------------------ Init
Constructed ==
  /\ shapes = <<>>
  /\ particles = <<>>
  /\ currentShape = "circle"
  /\ currentPalette = "pastels"
  /\ currentSize = DefaultSize
  /\ eraserMode = FALSE
  /\ draggedShape = NULL
  /\ dragOffset = [x |-> 0, y |-> 0]
  /\ longPressTimer = 0
  /\ showLongPressIndicator = FALSE
  /\ longPressProgress = 0
  /\ audioContextRef = "null"
  /\ warned = FALSE
  /\ timeouts = {}
  /\ intervals = {}
  /\ presses = 0
  /\ now = 0
  /\ held = [p \in Pointers |-> -1]
  /\ released = {}
  /\ fires = [h \in {} |-> 0]
  /\ ctl = 0
  /\ out = Out("init", <<>>, <<>>)

Init == Constructed /\ scope = SmallScope
InitScene == Constructed /\ scope = SceneScope
InitIds == Constructed /\ scope = IdScope
InitParticles == Constructed /\ scope = ParticleScope
InitGesture == Constructed /\ scope = GestureScope
InitControls == Constructed /\ scope = ControlScope
InitKinds == Constructed /\ scope = KindScope
InitAudio == Constructed /\ scope = AudioScope
InitHit == Constructed /\ scope = HitScope
InitEraseDrag == Constructed /\ scope = EraseDragScope

\* ------------------------------------------------------------------ actions

\* createShape(x, y), called by handlePointerDown on empty space; ctx is the audio
\* context it finds, audioOk the outcome of its own initAudioContext
createShape(x, y, ctx, audioOk, rc, ri, rs) ==
  IF eraserMode
  THEN /\ UNCHANGED sceneVars
       /\ audioContextRef' = ctx
       /\ out' = Out("createShape", <<>>, <<>>)
  ELSE /\ Len(shapes) < scope.shapes
       /\ Len(particles) < scope.shapes
       /\ shapes' = Append(shapes, NewShape(x, y, rc, ri, rs))
       /\ particles' = Append(particles, createSpreadingWave(x, y, getRandomColor(rc)))
       /\ out' = Out("createShape", <<playNote("create", ctx)>>, <<>>)
       /\ audioContextRef' = initAudioContext(ctx, audioOk)

\* deleteShape(shapeToDelete)
deleteShape(shapeToDelete, ctx) ==
  /\ shapes' = SelectSeq(shapes, LAMBDA shape : shape.id # shapeToDelete.id)
  /\ out' = Out("deleteShape", <<playNote("delete", ctx)>>, <<>>)
  /\ UNCHANGED particles

\* handlePointerDown, pointer p at (x, y); audio[1] and audio[2] are the outcomes of
\* the audio context creations it may attempt
handlePointerDown(p, x, y, audio, rc, ri, rs) ==
  LET touchedShape == findShapeAt(x, y)
      ctx == initAudioContext(audioContextRef, audio[1])
      timer == 2 * presses + 1
  IN  /\ held[p] = -1
      /\ IF touchedShape # NULL /\ eraserMode
         THEN /\ deleteShape(touchedShape, ctx)
              /\ audioContextRef' = ctx
              /\ held' = [held EXCEPT ![p] = 0]
              /\ UNCHANGED <<pressVars, timerVars, fires>>
         ELSE IF touchedShape # NULL
         THEN /\ presses < scope.presses
              /\ audioContextRef' = ctx
              /\ showLongPressIndicator' = TRUE
              /\ longPressProgress' = 0
              /\ timeouts' = timeouts \cup
                   {[id |-> timer, touchedShape |-> touchedShape, x |-> x, y |-> y,
                     due |-> now + LongPressDelay]}
              /\ longPressTimer' = timer
              /\ intervals' = intervals \cup {[id |-> timer + 1, startTime |-> now, press |-> timer]}
              /\ presses' = presses + 1
              /\ held' = [held EXCEPT ![p] = timer]
              /\ fires' = [h \in DOMAIN fires \cup {timer} |-> IF h = timer THEN 0 ELSE fires[h]]
              /\ out' = Out("longPressStart", <<>>, <<>>)
              /\ UNCHANGED sceneVars
         ELSE /\ createShape(x, y, ctx, audio[2], rc, ri, rs)
              /\ held' = [held EXCEPT ![p] = 0]
              /\ UNCHANGED <<pressVars, timerVars, fires>>
      \* console.warn of initAudioContext: the handler's own call, and createShape's
      /\ warned' = (\/ warned
                    \/ audioContextRef = "null" /\ ~audio[1]
                    \/ touchedShape = NULL /\ ~eraserMode /\ ctx = "null" /\ ~audio[2])
      /\ UNCHANGED <<controlVars, dragVars, now, released, ctl, scope>>

\* handlePointerMove, the pointer at (x, y)
handlePointerMove(x, y) ==
  /\ IF draggedShape = NULL
     THEN UNCHANGED shapes
     ELSE shapes' = MovedTo(shapes, draggedShape.id, x - dragOffset.x, y - dragOffset.y)
  /\ out' = Out("handlePointerMove", <<>>, <<>>)
  /\ UNCHANGED <<particles, controlVars, dragVars, pressVars, audioVars,
                 timerVars, now, ghostVars, ctl>>

\* handlePointerUp, for pointer p
handlePointerUp(p) ==
  /\ held[p] # -1
  /\ IF longPressTimer # 0
     THEN timeouts' = {t \in timeouts : t.id # longPressTimer}
     ELSE UNCHANGED timeouts
  /\ longPressTimer' = 0
  /\ IF draggedShape # NULL
     THEN /\ shapes' = WithOpacity(shapes, draggedShape.id, RestoredOpacity)
          /\ out' = Out("handlePointerUp", <<playNote("action", audioContextRef)>>, <<>>)
     ELSE /\ UNCHANGED shapes
          /\ out' = Out("handlePointerUp", <<>>, <<>>)
  /\ showLongPressIndicator' = FALSE
  /\ longPressProgress' = 0
  /\ draggedShape' = NULL
  /\ dragOffset' = [x |-> 0, y |-> 0]
  /\ held' = [held EXCEPT ![p] = -1]
  /\ released' = IF held[p] > 0 THEN released \cup {held[p]} ELSE released
  /\ UNCHANGED <<particles, controlVars, audioVars, intervals, presses, now, fires, ctl, scope>>

\* the callback as a repeating timer would run it: it stays pending
LongPressFireRepeating(t) ==
  /\ t \in timeouts
  /\ now >= t.due
  /\ fires' = [fires EXCEPT ![t.id] = @ + 1]
  /\ draggedShape' = t.touchedShape
  /\ dragOffset' = [x |-> t.x - t.touchedShape.x, y |-> t.y - t.touchedShape.y]
  /\ showLongPressIndicator' = FALSE
  /\ shapes' = WithOpacity(shapes, t.touchedShape.id, DraggedOpacity)
  /\ out' = Out("longPressFire", <<playNote("action", audioContextRef)>>, <<"Drag Mode">>)
  /\ UNCHANGED <<particles, controlVars, longPressTimer, longPressProgress, audioVars,
                 timeouts, intervals, presses, now, held, released, ctl, scope>>

\* the setTimeout callback of handlePointerDown, run for pending timeout t
LongPressFire(t) ==
  /\ t \in timeouts
  /\ now >= t.due
  /\ timeouts' = timeouts \ {t}
  /\ fires' = [fires EXCEPT ![t.id] = @ + 1]
  /\ draggedShape' = t.touchedShape
  /\ dragOffset' = [x |-> t.x - t.touchedShape.x, y |-> t.y - t.touchedShape.y]
  /\ showLongPressIndicator' = FALSE
  /\ shapes' = WithOpacity(shapes, t.touchedShape.id, DraggedOpacity)
  /\ out' = Out("longPressFire", <<playNote("action", audioContextRef)>>, <<"Drag Mode">>)
  /\ UNCHANGED <<particles, controlVars, longPressTimer, longPressProgress, audioVars,
                 intervals, presses, now, held, released, ctl, scope>>

\* the setInterval callback of handlePointerDown, run for running interval i
ProgressTick(i) ==
  LET elapsed == now - i.startTime
      progress == Min(elapsed, LongPressDelay)
  IN  /\ i \in intervals
      /\ elapsed >= ProgressInterval
      /\ longPressProgress' = progress
      /\ intervals' = IF progress >= LongPressDelay THEN intervals \ {i} ELSE intervals
      /\ out' = Out("progressTick", <<>>, <<>>)
      /\ UNCHANGED <<sceneVars, controlVars, dragVars, longPressTimer, showLongPressIndicator,
                     audioVars, timeouts, presses, now, ghostVars, ctl>>

\* the clock advances
ClockTick(ms) ==
  /\ now + ms <= scope.clock
  /\ now' = now + ms
  /\ out' = Out("clockTick", <<>>, <<>>)
  /\ UNCHANGED <<sceneVars, controlVars, dragVars, pressVars, audioVars, timerVars,
                 ghostVars, ctl>>

\* what a control-panel handler leaves alone
ControlFrame ==
  /\ ctl < scope.ctl
  /\ ctl' = ctl + 1
  /\ UNCHANGED <<dragVars, pressVars, audioVars, timerVars, now, ghostVars>>

\* increaseSize without its Math.min
increaseSizeUnclamped ==
  /\ currentSize' = currentSize + SizeStep
  /\ out' = Out("increaseSize", <<playNote("action", audioContextRef)>>, <<>>)
  /\ ControlFrame
  /\ UNCHANGED <<sceneVars, currentShape, currentPalette, eraserMode>>

increaseSize ==
  /\ currentSize' = Min(currentSize + SizeStep, MaxSize)
  /\ out' = Out("increaseSize", <<playNote("action", audioContextRef)>>, <<>>)
  /\ ControlFrame
  /\ UNCHANGED <<sceneVars, currentShape, currentPalette, eraserMode>>

decreaseSize ==
  /\ currentSize' = Max(currentSize - SizeStep, MinSize)
  /\ out' = Out("decreaseSize", <<playNote("action", audioContextRef)>>, <<>>)
  /\ ControlFrame
  /\ UNCHANGED <<sceneVars, currentShape, currentPalette, eraserMode>>

\* cycleShape stepping two entries on
cycleShapeByTwo ==
  LET currentIndex == IndexOf(ShapeKinds, currentShape) - 1
  IN  /\ currentShape' = ShapeKinds[((currentIndex + 2) % Len(ShapeKinds)) + 1]
      /\ out' = Out("cycleShape", <<playNote("action", audioContextRef)>>, <<>>)
      /\ ControlFrame
      /\ UNCHANGED <<sceneVars, currentPalette, currentSize, eraserMode>>

cycleShape ==
  LET currentIndex == IndexOf(ShapeKinds, currentShape) - 1
  IN  /\ currentShape' = ShapeKinds[((currentIndex + 1) % Len(ShapeKinds)) + 1]
      /\ out' = Out("cycleShape", <<playNote("action", audioContextRef)>>, <<>>)
      /\ ControlFrame
      /\ UNCHANGED <<sceneVars, currentPalette, currentSize, eraserMode>>

cyclePalette ==
  LET currentIndex == IndexOf(PaletteNames, currentPalette) - 1
  IN  /\ currentPalette' = PaletteNames[((currentIndex + 1) % Len(PaletteNames)) + 1]
      /\ out' = Out("cyclePalette", <<playNote("action", audioContextRef)>>, <<>>)
      /\ ControlFrame
      /\ UNCHANGED <<sceneVars, currentShape, currentSize, eraserMode>>

\* toggleEraser dropping the drag target as well
toggleEraserEndsDrag ==
  /\ eraserMode' = ~eraserMode
  /\ out' = Out("toggleEraser", <<playNote("action", audioContextRef)>>, <<>>)
  /\ ctl < scope.ctl
  /\ ctl' = ctl + 1
  /\ draggedShape' = NULL
  /\ UNCHANGED <<dragOffset, pressVars, audioVars, timerVars, now, ghostVars>>
  /\ UNCHANGED <<sceneVars, currentShape, currentPalette, currentSize>>

toggleEraser ==
  /\ eraserMode' = ~eraserMode
  /\ out' = Out("toggleEraser", <<playNote("action", audioContextRef)>>, <<>>)
  /\ ControlFrame
  /\ UNCHANGED <<sceneVars, currentShape, currentPalette, currentSize>>

\* clearCanvas without its setParticles([])
clearCanvasKeepsParticles ==
  /\ IF Len(shapes) > 0
     THEN /\ shapes' = <<>>
          /\ UNCHANGED particles
          /\ out' = Out("clearCanvas", <<playNote("action", audioContextRef)>>, <<"Canvas Cleared">>)
     ELSE /\ UNCHANGED sceneVars
          /\ out' = Out("clearCanvas", <<>>, <<>>)
  /\ ControlFrame
  /\ UNCHANGED controlVars

clearCanvas ==
  /\ IF Len(shapes) > 0
     THEN /\ shapes' = <<>>
          /\ particles' = <<>>
          /\ out' = Out("clearCanvas", <<playNote("action", audioContextRef)>>, <<"Canvas Cleared">>)
     ELSE /\ UNCHANGED sceneVars
          /\ out' = Out("clearCanvas", <<>>, <<>>)
  /\ ControlFrame
  /\ UNCHANGED controlVars

\* the map without its life - 1
AgeParticleFrozen(particle) ==
  [particle EXCEPT !.vx = 0, !.vy = 0]

\* the particle setInterval callback: age every particle, drop the dead ones
AgeParticle(particle) ==
  [particle EXCEPT !.vx = 0, !.vy = 0, !.life = particle.life - 1]

\* the filter with >= for >
AliveAtZero(particle) == particle.life >= 0

Alive(particle) == particle.life > 0

ParticleTick ==
  /\ particles' = SelectSeq([i \in DOMAIN particles |-> AgeParticle(particles[i])], Alive)
  /\ out' = Out("particleTick", <<>>, <<>>)
  /\ UNCHANGED <<shapes, controlVars, dragVars, pressVars, audioVars, timerVars, now,
                 ghostVars, ctl>>

\* ------------------------------------------------------------ specifications
\* The whole component, in the smallest scope.
Next ==
  \/ \E pt \in GesturePoints, audio \in BOOLEAN \X BOOLEAN :
       handlePointerDown(1, pt[1], pt[2], audio, 0, 0, 0)
  \/ \E pt \in GesturePoints : handlePointerMove(pt[1], pt[2])
  \/ handlePointerUp(1)
  \/ \E t \in timeouts : LongPressFire(t)
  \/ \E i \in intervals : ProgressTick(i)
  \/ \E ms \in ClockSteps : ClockTick(ms)
  \/ increaseSize
  \/ decreaseSize
  \/ cycleShape
  \/ cyclePalette
  \/ toggleEraser
  \/ clearCanvas
  \/ ParticleTick

Spec == Init /\ [][Next]_vars

\* Creating, erasing and clearing within one clock reading: every draw of
\* Math.random(), every control.  (The clock only enters the ids.)
NextScene ==
  \/ \E pt \in Points, rc, ri, rs \in RandomDraws :
       handlePointerDown(1, pt[1], pt[2], AudioWorks, rc, ri, rs)
  \/ handlePointerUp(1)
  \/ increaseSize
  \/ decreaseSize
  \/ cycleShape
  \/ cyclePalette
  \/ toggleEraser
  \/ clearCanvas

SpecScene == InitScene /\ [][NextScene]_vars

\* Ids: creates at the same and at different clock readings, and erasing by id.
NextIds ==
  \/ \E pt \in Points, ri \in RandomDraws : handlePointerDown(1, pt[1], pt[2], AudioWorks, 0, ri, 0)
  \/ handlePointerUp(1)
  \/ \E ms \in ClockSteps : ClockTick(ms)
  \/ toggleEraser

SpecIds == InitIds /\ [][NextIds]_vars

\* The long-press gesture: two pointers, the timeout and the interval callbacks.
NextGesture ==
  \/ \E p \in Pointers, pt \in GesturePoints, ri \in RandomDraws :
       handlePointerDown(p, pt[1], pt[2], AudioWorks, 0, ri, 0)
  \/ \E pt \in GesturePoints : handlePointerMove(pt[1], pt[2])
  \/ \E p \in Pointers : handlePointerUp(p)
  \/ \E t \in timeouts : LongPressFire(t)
  \/ \E i \in intervals : ProgressTick(i)
  \/ \E ms \in ClockSteps : ClockTick(ms)

SpecGesture == InitGesture /\ [][NextGesture]_vars

\* The long-press timeout alone: presses of two pointers, releases, the callback.
NextLongPress ==
  \/ \E p \in Pointers, pt \in GesturePoints, ri \in RandomDraws :
       handlePointerDown(p, pt[1], pt[2], AudioWorks, 0, ri, 0)
  \/ \E p \in Pointers : handlePointerUp(p)
  \/ \E t \in timeouts : LongPressFire(t)
  \/ \E ms \in ClockSteps : ClockTick(ms)

SpecLongPress == InitGesture /\ [][NextLongPress]_vars

\* The control panel, run long enough to reach both ends of the size range.
NextControls ==
  \/ increaseSize
  \/ decreaseSize
  \/ toggleEraser
  \/ clearCanvas
  \/ \E pt \in GesturePoints : handlePointerDown(1, pt[1], pt[2], AudioWorks, 0, 0, 0)
  \/ handlePointerUp(1)

SpecControls == InitControls /\ [][NextControls]_vars

\* Particles: created with a shape, aged by the interval, dropped by clearCanvas.
NextParticles ==
  \/ \E pt \in Points, rc \in RandomDraws : handlePointerDown(1, pt[1], pt[2], AudioWorks, rc, 0, 0)
  \/ handlePointerUp(1)
  \/ ParticleTick
  \/ clearCanvas

SpecParticles == InitParticles /\ [][NextParticles]_vars

\* The same with the particle interval kept running: setInterval fires its
\* callback every 16 ms for as long as the component is mounted.
SpecParticlesFair == SpecParticles /\ WF_vars(ParticleTick)

\* The shape kinds: cycleShape as the only control, and shapes of the current kind.
NextKinds ==
  \/ cycleShape
  \/ \E pt \in Points : handlePointerDown(1, pt[1], pt[2], AudioWorks, 0, 0, 0)
  \/ handlePointerUp(1)

SpecKinds == InitKinds /\ [][NextKinds]_vars

\* Sound: every pointer-down may find that an audio context cannot be created.
NextAudio ==
  \/ \E pt \in GesturePoints, audio \in BOOLEAN \X BOOLEAN :
       handlePointerDown(1, pt[1], pt[2], audio, 0, 0, 0)
  \/ handlePointerUp(1)
  \/ increaseSize
  \/ toggleEraser
  \/ clearCanvas

SpecAudio == InitAudio /\ [][NextAudio]_vars

\* Hit testing: shapes of both sizes that overlap and touch, pressed and erased.
NextHit ==
  \/ \E pt \in HitPoints, ri, rs \in RandomDraws :
       handlePointerDown(1, pt[1], pt[2], AudioWorks, 0, ri, rs)
  \/ handlePointerUp(1)
  \/ toggleEraser

SpecHit == InitHit /\ [][NextHit]_vars

\* Erasing and clearing while a long press is pending or a drag is on.
NextEraseDrag ==
  \/ \E p \in Pointers, pt \in GesturePoints :
       handlePointerDown(p, pt[1], pt[2], AudioWorks, 0, 0, 0)
  \/ \E p \in Pointers : handlePointerUp(p)
  \/ \E t \in timeouts : LongPressFire(t)
  \/ \E ms \in ClockSteps : ClockTick(ms)
  \/ toggleEraser
  \/ clearCanvas

SpecEraseDrag == InitEraseDrag /\ [][NextEraseDrag]_vars

\* -------------------------------------------------------------- properties
\* the state of the component itself: everything but the run's bookkeeping
programVars == <<shapes, particles, currentShape, currentPalette, currentSize, eraserMode,
                 draggedShape, dragOffset, longPressTimer, showLongPressIndicator,
                 longPressProgress, audioContextRef, timeouts, intervals>>

Colors(palette) == {COLOR_PALETTES[palette][i] : i \in DOMAIN COLOR_PALETTES[palette]}

\* the step appends one shape, of the current kind, palette colour and size range
AddsOneShape ==
  /\ Len(shapes') = Len(shapes) + 1
  /\ SubSeq(shapes', 1, Len(shapes)) = shapes
  /\ LET new == shapes'[Len(shapes')]
     IN  /\ new.type = currentShape
         /\ new.color \in Colors(currentPalette)
         /\ new.size >= currentSize - 10
         /\ new.size <= currentSize + 10

\* C1, as stated: a pointer-down where findShapeAt finds no shape (the handler
\* reaches createShape) always adds exactly one shape, of the current kind, with a
\* colour of the current palette and a size within 10 of currentSize.
C1_TapEmptyAlwaysAdds ==
  [][out'.op = "createShape" => AddsOneShape]_vars

\* C1, amended: with eraser mode off the pointer-down on empty space adds exactly
\* one such shape; with eraser mode on it adds nothing.
C1_TapEmptyAddsUnlessErasing ==
  [][out'.op = "createShape" =>
       IF eraserMode THEN UNCHANGED sceneVars ELSE AddsOneShape]_vars

\* a second shape was just created, with the largest size and the last colour drawn
C1_Witness ==
  /\ out.op = "createShape"
  /\ out.notes # <<>>
  /\ Len(shapes) = 2
  /\ shapes[2].size = currentSize + 9
  /\ shapes[2].color = COLOR_PALETTES[currentPalette][8]
  /\ currentPalette # "pastels"

\* C2: a pointer-down on a shape with eraser mode on (the handler reaches
\* deleteShape) removes exactly one shape, the one found: the list is the old list
\* without that id and one shorter, and particles, drag target and controls stay.
C2_EraseRemovesExactlyOne ==
  [][out'.op = "deleteShape" =>
       /\ Len(shapes') = Len(shapes) - 1
       /\ \E i \in DOMAIN shapes :
            shapes' = SelectSeq(shapes, LAMBDA shape : shape.id # shapes[i].id)
       /\ UNCHANGED <<particles, dragVars, controlVars>>]_vars

\* C3: a pointer-down that starts a long press leaves the shape list as it is, and
\* when a pointer that started a long press is released while that press's
\* timeout is still pending, the shape list stays as it is and the timeout is
\* cancelled, so that the press can no longer start a drag.
C3_EarlyReleaseCancels ==
  [][/\ out'.op = "longPressStart" => shapes' = shapes
     /\ \A p \in Pointers :
          (handlePointerUp(p) /\ held[p] > 0 /\ \E t \in timeouts : t.id = held[p]) =>
             /\ shapes' = shapes
             /\ ~ \E t \in timeouts' : t.id = held[p]]_vars

C5_NoCallbackAfterRelease ==
  [][/\ \A t \in timeouts : LongPressFire(t) => t.id \notin released
     /\ \A i \in intervals : ProgressTick(i) => i.press \notin released]_vars

\* C6: currentSize stays within [20, 200], and each increaseSize or decreaseSize
\* moves it by 20, or leaves it at the bound the move would cross.
C6_SizeClamped ==
  /\ [](currentSize >= 20 /\ currentSize <= 200)
  /\ [][/\ out'.op = "increaseSize" =>
             currentSize' = IF currentSize + 20 > 200 THEN 200 ELSE currentSize + 20
        /\ out'.op = "decreaseSize" =>
             currentSize' = IF currentSize - 20 < 20 THEN 20 ELSE currentSize - 20
        /\ out'.op \notin {"increaseSize", "decreaseSize"} => currentSize' = currentSize]_vars

\* increaseSize has run at the upper bound
C6_Witness ==
  /\ out.op = "increaseSize"
  /\ currentSize = 200
  /\ ctl > 6

\* C7: clearCanvas with a shape present empties shapes and particles and emits one
\* tone request and the "Canvas Cleared" toast; with no shape it changes nothing
\* and emits neither.
C7_ClearCanvas ==
  [][out'.op = "clearCanvas" =>
       IF Len(shapes) > 0
       THEN /\ shapes' = <<>>
            /\ particles' = <<>>
            /\ Len(out'.notes) = 1
            /\ out'.toasts = <<"Canvas Cleared">>
       ELSE /\ UNCHANGED programVars
            /\ out'.notes = <<>>
            /\ out'.toasts = <<>>]_vars

\* clearCanvas has just emptied a canvas that held shapes
C7_Witness ==
  /\ out.op = "clearCanvas"
  /\ out.toasts = <<"Canvas Cleared">>
  /\ shapes = <<>>
  /\ particles = <<>>

\* the particle at index j after the step is the one at index i before it, aged by
\* n ticks
AgedFrom(j, i, n) == particles'[j] = [particles[i] EXCEPT !.life = @ - n]

\* C8: every particle has 0 < life <= maxLife; a particle-aging tick lowers each
\* life by exactly 1, changes nothing else of it, keeps the order and drops exactly
\* the particles whose life reaches 0; no other step raises a life.
C8_ParticleLife ==
  /\ [](\A i \in DOMAIN particles : particles[i].life > 0 /\ particles[i].life <= particles[i].maxLife)
  /\ [][IF out'.op = "particleTick"
        THEN LET kept == {i \in DOMAIN particles : particles[i].life # 1}
             IN  /\ Len(particles') = Cardinality(kept)
                 /\ \A i \in kept : AgedFrom(Cardinality({k \in kept : k <= i}), i, 1)
        ELSE \A j \in DOMAIN particles' :
               \/ j <= Len(particles) /\ particles'[j] = particles[j]
               \/ j = Len(particles) + 1 /\ particles'[j].life = particles'[j].maxLife]_vars

\* a tick has dropped one of two particles and the other is on its last tick
C8_Witness ==
  /\ out.op = "particleTick"
  /\ Len(shapes) = 2
  /\ Len(particles) = 1
  /\ particles[1].life = 1

\* C9: no two shapes of the list have the same id.
C9_UniqueIds ==
  \A i, j \in DOMAIN shapes : i # j => shapes[i].id # shapes[j].id

\* C10: only the drag target is in the grabbed state: a shape with opacity 0.7 is
\* the current drag target.
C10_OnlyDragTargetGrabbed ==
  \A i \in DOMAIN shapes :
    shapes[i].opacity = 7 => draggedShape # NULL /\ shapes[i].id = draggedShape.id

\* C11: a pointer-down on an existing shape with eraser mode on deletes that shape
\* and starts no long-press timeout or interval; with eraser mode off it starts the
\* timeout and the interval and leaves the shape list as it is; toggleEraser flips
\* eraserMode and leaves everything else, a drag in progress included, as it was.
C11_EraseOrPressNeverBoth ==
  [][/\ \A p \in Pointers, pt \in GesturePoints :
          (handlePointerDown(p, pt[1], pt[2], AudioWorks, 0, 0, 0) /\ findShapeAt(pt[1], pt[2]) # NULL) =>
             IF eraserMode
             THEN /\ \A i \in DOMAIN shapes' : shapes'[i].id # findShapeAt(pt[1], pt[2]).id
                  /\ Len(shapes') < Len(shapes)
                  /\ UNCHANGED <<timeouts, intervals, longPressTimer, showLongPressIndicator>>
             ELSE /\ shapes' = shapes
                  /\ Cardinality(timeouts') = Cardinality(timeouts) + 1
                  /\ Cardinality(intervals') = Cardinality(intervals) + 1
                  /\ longPressTimer' # 0
                  /\ \E t \in timeouts' \ timeouts :
                       t.id = longPressTimer' /\ t.touchedShape = findShapeAt(pt[1], pt[2])
     /\ out'.op = "toggleEraser" =>
          /\ eraserMode' = ~eraserMode
          /\ UNCHANGED <<shapes, particles, currentShape, currentPalette, currentSize,
                         draggedShape, dragOffset, longPressTimer, showLongPressIndicator,
                         longPressProgress, audioContextRef, timeouts, intervals>>]_vars

\* the eraser was switched on during a drag: the drag target is still grabbed
C11_Witness ==
  /\ out.op = "toggleEraser"
  /\ eraserMode
  /\ draggedShape # NULL
  /\ dragOffset.x # 0
  /\ \E i \in DOMAIN shapes : shapes[i].id = draggedShape.id /\ shapes[i].opacity = 7

\* the kind n entries after kind in the ordered list, wrapping
KindAfter(kind, n) ==
  LET k == CHOOSE i \in 1..Len(ShapeKinds) : ShapeKinds[i] = kind
  IN  ShapeKinds[((k - 1 + n) % Len(ShapeKinds)) + 1]

\* C12: the list has 10 distinct kinds; each cycleShape moves currentShape to the
\* next entry, wrapping from the last to the first, and changes nothing else; so
\* after n calls from the initial kind the kind is the n-th after it, which is the
\* initial kind exactly when n is a multiple of 10, and the same from any kind.
C12_CycleShapeWraps ==
  /\ [](/\ Len(ShapeKinds) = 10
        /\ \A i, j \in 1..10 : i # j => ShapeKinds[i] # ShapeKinds[j]
        /\ currentShape = KindAfter("circle", ctl)
        /\ (currentShape = "circle" <=> ctl % 10 = 0)
        /\ \A n \in 1..10 : KindAfter(currentShape, n) = currentShape <=> n = 10)
  /\ [][out'.op = "cycleShape" =>
          /\ currentShape' = KindAfter(currentShape, 1)
          /\ currentShape = "rainbow" => currentShape' = "circle"
          /\ UNCHANGED <<shapes, particles, currentPalette, currentSize, eraserMode,
                         draggedShape, dragOffset, longPressTimer, showLongPressIndicator,
                         longPressProgress, audioContextRef, timeouts, intervals>>]_vars

\* the tenth cycleShape is back at the first kind, a shape of the last kind drawn
C12_Witness ==
  /\ out.op = "cycleShape"
  /\ ctl = 10
  /\ currentShape = "circle"
  /\ Len(shapes) = 1
  /\ shapes[1].type = "rainbow"

\* C13: once a creation of the audio context has failed there is no audio context
\* for the rest of the run, and no later handler produces a tone; the pointer-down
\* whose creation failed changes the scene as it would have with sound.
C13_FailedAudioStaysSilent ==
  /\ [](warned => audioContextRef = "null")
  /\ [][/\ warned => \A i \in DOMAIN out'.notes : ~out'.notes[i].audible
        /\ (~warned /\ warned' /\ out'.op = "createShape" /\ ~eraserMode) =>
             Len(shapes') = Len(shapes) + 1]_vars

\* the centre of shape is within size/2 of pt, boundary included
WithinHalfSize(shape, pt) ==
  4 * ((pt[1] - shape.x) * (pt[1] - shape.x) + (pt[2] - shape.y) * (pt[2] - shape.y))
    <= shape.size * shape.size

\* the indices of the shapes that contain pt, and the highest of them
ShapesAt(pt) == {i \in DOMAIN shapes : WithinHalfSize(shapes[i], pt)}
TopAt(pt) == CHOOSE i \in ShapesAt(pt) : \A j \in ShapesAt(pt) : j <= i

\* C14: findShapeAt(x, y) is the shape of highest index whose centre is within
\* size/2 of (x, y), boundary included, and null exactly when there is none; a
\* pointer-down on shapes deletes (eraser on) or long-presses (eraser off) that one.
C14_FindsTopmost ==
  /\ [](\A pt \in HitPoints :
          IF ShapesAt(pt) = {}
          THEN findShapeAt(pt[1], pt[2]) = NULL
          ELSE findShapeAt(pt[1], pt[2]) = shapes[TopAt(pt)])
  /\ [][\A pt \in HitPoints, ri, rs \in RandomDraws :
          (handlePointerDown(1, pt[1], pt[2], AudioWorks, 0, ri, rs) /\ ShapesAt(pt) # {}) =>
             IF eraserMode
             THEN /\ \A i \in DOMAIN shapes' : shapes'[i].id # shapes[TopAt(pt)].id
                  /\ \A i \in DOMAIN shapes :
                       shapes[i].id # shapes[TopAt(pt)].id => \E j \in DOMAIN shapes' : shapes'[j] = shapes[i]
             ELSE \E t \in timeouts' \ timeouts : t.touchedShape = shapes[TopAt(pt)]]_vars

\* a press on the point two shapes of size 70 have on their edge took the later one
C14_Witness ==
  /\ out.op = "longPressStart"
  /\ Len(shapes) = 2
  /\ shapes[1].size = 70 /\ shapes[2].size = 70
  /\ shapes[1].x = 170 /\ shapes[2].x = 100
  /\ ShapesAt(<<135, 100>>) = {1, 2}
  /\ shapes[1].id # shapes[2].id
  /\ \E t \in timeouts : t.x = 135 /\ t.touchedShape = shapes[2]

\* C15: a pointer-move with a drag target puts that one shape at the pointer
\* position minus dragOffset and leaves its other fields, every other shape, the
\* order and length of the list and all other state as they were; a pointer-move
\* without a drag target changes no state.
C15_MoveMovesOnlyTarget ==
  [][\A pt \in GesturePoints :
       handlePointerMove(pt[1], pt[2]) =>
         IF draggedShape = NULL
         THEN UNCHANGED programVars
         ELSE /\ Len(shapes') = Len(shapes)
              /\ \A i \in DOMAIN shapes :
                   shapes'[i] = IF shapes[i].id = draggedShape.id
                                THEN [shapes[i] EXCEPT !.x = pt[1] - dragOffset.x,
                                                       !.y = pt[2] - dragOffset.y]
                                ELSE shapes[i]
              /\ Cardinality({i \in DOMAIN shapes : shapes'[i] # shapes[i]}) <= 1
              /\ UNCHANGED <<particles, controlVars, dragVars, pressVars, audioContextRef,
                             timeouts, intervals>>]_vars

\* C16: a pointer-up during a drag leaves no drag target, dragOffset (0, 0), the
\* indicator hidden and progress 0, and gives the released shape the opacity it
\* had before the drag began (the opacity of the shape as the press captured it).
C16_ReleaseRestoresOpacity ==
  [][\A p \in Pointers :
       (handlePointerUp(p) /\ draggedShape # NULL) =>
          /\ draggedShape' = NULL
          /\ dragOffset' = [x |-> 0, y |-> 0]
          /\ showLongPressIndicator' = FALSE
          /\ longPressProgress' = 0
          /\ Len(shapes') = Len(shapes)
          /\ \A i \in DOMAIN shapes :
               shapes[i].id = draggedShape.id => shapes'[i].opacity = draggedShape.opacity]_vars

\* C17: whenever there is a drag target, a shape with its id is in the shape list.
C17_DragTargetInList ==
  draggedShape # NULL => \E i \in DOMAIN shapes : shapes[i].id = draggedShape.id

\* C18: with the particle interval firing, every particle leaves the collection:
\* no particle has more than 60 ticks left, and whenever there are particles the
\* collection is empty again later (by their last tick, or by clearCanvas).
C18_ParticlesDieOut ==
  /\ [](\A i \in DOMAIN particles : particles[i].life <= 60)
  /\ (particles # <<>>) ~> (particles = <<>>)

\* the last tick of the last particle has emptied the collection, the shapes stay
C18_Witness ==
  /\ out.op = "particleTick"
  /\ particles = <<>>
  /\ Len(shapes) = 2
====
